---- MODULE Spec2Model ----
(***************************************************************************)
(* Model of lab0example.py (src/src/main (1).py): the Tk callback          *)
(* plot_example, which opens the serial port, sends the trigger byte,      *)
(* reads "time,voltage" lines until 200 samples were accepted, computes    *)
(* the theoretical curve and plots both, and the buttons of tk_matplot.    *)
(***************************************************************************)
EXTENDS Integers, Sequences, FiniteSets, TLC

(***************************************************************************)
(* Bounds of the model (not program constants).                            *)
(***************************************************************************)
\* the device sends a line other than its regular record at most MaxFree times
\* in a session, and only during the first MaxFree reads of a run
MaxFree ==
  1

\* number of times the "Run Test" button is pressed
MaxRuns ==
  2

(***************************************************************************)
(* Program constants.                                                      *)
(***************************************************************************)
\* while stop_condition <= 1990
LoopLimit ==
  1990

\* stop_condition += 10
CounterStep ==
  10

\* ser.write(b'\x04')
TriggerByte ==
  4

\* theory_times = list(range(2000))
T_max ==
  2000

(***************************************************************************)
(* Text: bytes.decode('utf-8'), str.strip, str.split(','), float.          *)
(* A raw line is a sequence of byte values; a decoded line is a sequence   *)
(* of one-character strings.                                               *)
(***************************************************************************)
\* the ASCII bytes the modelled device uses, with their characters
Chr ==
  (10 :> "\n") @@ (13 :> "\r") @@ (32 :> " ") @@ (44 :> ",") @@ (45 :> "-")
  @@ (46 :> ".") @@ (48 :> "0") @@ (49 :> "1") @@ (50 :> "2") @@ (51 :> "3")
  @@ (52 :> "4") @@ (53 :> "5") @@ (54 :> "6") @@ (55 :> "7") @@ (56 :> "8")
  @@ (57 :> "9") @@ (120 :> "x")

\* a byte is valid single-byte UTF-8 iff it is below 0x80
DecodeOK(raw) ==
  \A i \in 1..Len(raw) : raw[i] \in DOMAIN Chr

\* bytes.decode('utf-8') on a line that DecodeOK accepts
Decode(raw) ==
  [i \in 1..Len(raw) |-> Chr[raw[i]]]

Whitespace ==
  {" ", "\n", "\r"}

\* str.strip(): drop leading and trailing whitespace
Strip(s) ==
  LET keep == {i \in 1..Len(s) : s[i] \notin Whitespace}
  IN  IF keep = {} THEN <<>>
      ELSE LET lo == CHOOSE i \in keep : \A j \in keep : i <= j
               hi == CHOOSE i \in keep : \A j \in keep : j <= i
           IN  SubSeq(s, lo, hi)

\* str.split(','): the fields between the commas (always at least one field)
RECURSIVE Split(_)
Split(s) ==
  LET commas == {i \in 1..Len(s) : s[i] = ","}
  IN  IF commas = {} THEN <<s>>
      ELSE LET c == CHOOSE i \in commas : \A j \in commas : i <= j
           IN  <<SubSeq(s, 1, c - 1)>> \o Split(SubSeq(s, c + 1, Len(s)))

DigitVal ==
  ("0" :> 0) @@ ("1" :> 1) @@ ("2" :> 2) @@ ("3" :> 3) @@ ("4" :> 4)
  @@ ("5" :> 5) @@ ("6" :> 6) @@ ("7" :> 7) @@ ("8" :> 8) @@ ("9" :> 9)

\* the text of a float without its sign: digits with at most one point and
\* at least one digit
UnsignedOK(u) ==
  /\ \A i \in 1..Len(u) : u[i] \in (DOMAIN DigitVal) \cup {"."}
  /\ Cardinality({i \in 1..Len(u) : u[i] = "."}) <= 1
  /\ \E i \in 1..Len(u) : u[i] \in DOMAIN DigitVal

\* float() accepts surrounding whitespace and one leading sign
FloatBody(s) ==
  LET t == Strip(s)
  IN  IF t # <<>> /\ t[1] = "-" THEN SubSeq(t, 2, Len(t)) ELSE t

\* float(s) returns a value (otherwise it raises ValueError)
FloatOK(s) ==
  UnsignedOK(FloatBody(s))

RECURSIVE DigitsVal(_)
\* the integer written by a sequence of digits
DigitsVal(d) ==
  IF d = <<>> THEN 0
  ELSE 10 * DigitsVal(SubSeq(d, 1, Len(d) - 1)) + DigitVal[d[Len(d)]]

RECURSIVE Normal(_, _)
\* the decimal m * 10^(-e) without trailing zeros in its fraction
Normal(m, e) ==
  IF e > 0 /\ m % 10 = 0 THEN Normal(m \div 10, e - 1) ELSE [m |-> m, e |-> e]

\* float(s) for a text FloatOK accepts: the decimal number it denotes
Float(s) ==
  LET t    == Strip(s)
      neg  == t[1] = "-"
      u    == FloatBody(s)
      dot  == {i \in 1..Len(u) : u[i] = "."}
      p    == IF dot = {} THEN Len(u) + 1 ELSE CHOOSE i \in dot : TRUE
      digs == SubSeq(u, 1, p - 1) \o SubSeq(u, p + 1, Len(u))
      n    == Normal(DigitsVal(digs), Len(u) - p + (IF dot = {} THEN 1 ELSE 0))
  IN  [m |-> IF neg THEN 0 - n.m ELSE n.m, e |-> n.e]

(***************************************************************************)
(* The device: the lines ser.readline() can return, by name.               *)
(***************************************************************************)
Bytes ==
  \* "12,1.5\n": the record the device streams regularly
  ("regular" :> <<49, 50, 44, 49, 46, 53, 10>>)
  \* " 45,2.10\r\n": another well-formed record, with surrounding whitespace
  @@ ("other" :> <<32, 52, 53, 44, 50, 46, 49, 48, 13, 10>>)
  \* b'': the read timed out (timeout=1) before any byte arrived
  @@ ("timeout" :> <<>>)
  \* "1,2,3\n": three fields
  @@ ("three" :> <<49, 44, 50, 44, 51, 10>>)
  \* "x,1\n": the first field is not a number
  @@ ("badtime" :> <<120, 44, 49, 10>>)
  \* "30,\n": the first field is a number, the second is empty
  @@ ("badvolt" :> <<51, 48, 44, 10>>)
  \* a garbled byte (0xFF), which is not valid UTF-8
  @@ ("garbled" :> <<255, 10>>)

RawLines ==
  DOMAIN Bytes

(***************************************************************************)
(* State.                                                                  *)
(***************************************************************************)
VARIABLES
  pc,             \* position of the Tk thread: "idle" in mainloop, or a line of plot_example
  ser,            \* local ser: "none" or "open"
  times,          \* local times
  volts,          \* local volts
  stop_condition, \* local stop_condition
  data,           \* local data: the decoded, stripped line
  times_flt,      \* local times_flt
  volts_flt,      \* local volts_flt
  theory_times,   \* line 81: list(range(2000)), empty before
  theory_volts,   \* line 82: one value per element of theory_times
  axes,           \* the Matplotlib axes: plotted series, labels, grid
  port_open,      \* serial handles opened and not closed
  runs,           \* "Run Test" presses so far
  opens,          \* history: serial.Serial() calls of the current callback
  written,        \* history: bytes written to the port by the current callback
  consumed,       \* history: names of the lines read by the current callback
  events,         \* history: steps completed by the current callback
  draws,          \* history: canvas.draw() calls of the current callback
  outcome,        \* history: how the current callback ended
  axes0,          \* history: axes when the current callback started
  deviations      \* device: lines other than the regular record sent so far

locals ==
  <<ser, times, volts, stop_condition, data, times_flt, volts_flt,
    theory_times, theory_volts>>

history ==
  <<opens, written, consumed, events, draws, outcome, axes0>>

vars ==
  <<pc, locals, axes, port_open, runs, history, deviations>>

\* value of a float local before its first assignment
NoFloat ==
  [m |-> 0, e |-> 0]

\* fig.add_subplot(): axes with nothing plotted
EmptyAxes ==
  [series |-> <<>>, xlabel |-> "", ylabel |-> "", grid |-> FALSE]

Init ==
  /\ pc = "idle"
  /\ ser = "none"
  /\ times = <<>>
  /\ volts = <<>>
  /\ stop_condition = 0
  /\ data = <<>>
  /\ times_flt = NoFloat
  /\ volts_flt = NoFloat
  /\ theory_times = <<>>
  /\ theory_volts = <<>>
  /\ axes = EmptyAxes
  /\ port_open = 0
  /\ runs = 0
  /\ opens = 0
  /\ written = <<>>
  /\ consumed = <<>>
  /\ events = <<>>
  /\ draws = 0
  /\ outcome = "none"
  /\ axes0 = EmptyAxes
  /\ deviations = 0

(***************************************************************************)
(* tk_matplot: the buttons.  The Tk main loop runs one callback at a time, *)
(* so a button acts only while the thread is idle in mainloop().           *)
(***************************************************************************)
\* a variant of RunTest that Tk dispatches although a callback is running
RunTest_Reentrant ==
  /\ pc # "closed"
  /\ runs < MaxRuns
  /\ pc' = "open"
  /\ runs' = runs + 1
  /\ opens' = 0
  /\ written' = <<>>
  /\ consumed' = <<>>
  /\ events' = <<>>
  /\ draws' = 0
  /\ outcome' = "none"
  /\ axes0' = axes
  /\ UNCHANGED <<locals, axes, port_open, deviations>>

\* a variant of RunTest that clears the axes before it starts the run
RunTest_ClearsFirst ==
  /\ pc = "idle"
  /\ runs < MaxRuns
  /\ pc' = "open"
  /\ runs' = runs + 1
  /\ opens' = 0
  /\ written' = <<>>
  /\ consumed' = <<>>
  /\ events' = <<>>
  /\ draws' = 0
  /\ outcome' = "none"
  /\ axes0' = axes
  /\ axes' = EmptyAxes
  /\ UNCHANGED <<locals, port_open, deviations>>

\* button_run: command=lambda: plot_function(axes, canvas, xlabel, ylabel)
RunTest ==
  /\ pc = "idle"
  /\ runs < MaxRuns
  /\ pc' = "open"
  /\ runs' = runs + 1
  /\ opens' = 0
  /\ written' = <<>>
  /\ consumed' = <<>>
  /\ events' = <<>>
  /\ draws' = 0
  /\ outcome' = "none"
  /\ axes0' = axes
  /\ UNCHANGED <<locals, axes, port_open, deviations>>

\* button_clear: command=lambda: axes.clear() or canvas.draw()
Clear ==
  /\ pc = "idle"
  /\ axes' = EmptyAxes
  /\ opens' = 0
  /\ written' = <<>>
  /\ consumed' = <<>>
  /\ events' = <<>>
  /\ draws' = 1
  /\ outcome' = "cleared"
  /\ axes0' = axes
  /\ UNCHANGED <<pc, locals, port_open, runs, deviations>>

\* button_quit: command=tk_root.destroy ends mainloop and with it the
\* program; the operating system closes whatever handle is still open
Quit ==
  /\ pc = "idle"
  /\ pc' = "closed"
  /\ port_open' = 0
  /\ opens' = 0
  /\ written' = <<>>
  /\ consumed' = <<>>
  /\ events' = <<>>
  /\ draws' = 0
  /\ outcome' = "quit"
  /\ axes0' = axes
  /\ UNCHANGED <<locals, axes, runs, deviations>>

(***************************************************************************)
(* plot_example.                                                           *)
(***************************************************************************)
\* The frame of plot_example is left, by return or by an exception: its
\* locals are gone.  The function never calls ser.close(); whether the handle
\* is closed is up to the interpreter's finalisation of the Serial object
\* (finalized), which the language does not promise.
LeaveFrame(how, finalized) ==
  /\ pc' = "idle"
  /\ outcome' = how
  /\ ser' = "none"
  /\ times' = <<>>
  /\ volts' = <<>>
  /\ stop_condition' = 0
  /\ data' = <<>>
  /\ times_flt' = NoFloat
  /\ volts_flt' = NoFloat
  /\ theory_times' = <<>>
  /\ theory_volts' = <<>>
  /\ port_open' = IF ser = "open" /\ finalized THEN port_open - 1 ELSE port_open

\* line 47: serial.Serial('COM9', 115200, timeout=1) returns a handle.  COM9
\* is a Windows port and Windows opens a serial port exclusively, so the call
\* can succeed only while no handle to the port is open.
Serial_ok ==
  /\ pc = "open"
  /\ port_open = 0
  /\ pc' = "write"
  /\ ser' = "open"
  /\ port_open' = port_open + 1
  /\ opens' = opens + 1
  /\ events' = Append(events, "open")
  /\ UNCHANGED <<times, volts, stop_condition, data, times_flt, volts_flt,
                 theory_times, theory_volts, axes, runs, written, consumed, draws, outcome,
                 axes0, deviations>>

\* a variant of Serial_fail that tries to open the port again
Serial_fail_Retry ==
  /\ pc = "open"
  /\ pc' = "open"
  /\ opens' = opens + 1
  /\ UNCHANGED <<locals, axes, port_open, runs, written, consumed, events,
                 draws, outcome, axes0, deviations>>

\* line 47: serial.Serial raises SerialException; nothing catches it
Serial_fail ==
  /\ pc = "open"
  /\ opens' = opens + 1
  /\ LeaveFrame("raised", FALSE)
  /\ UNCHANGED <<axes, runs, written, consumed, events, draws, axes0,
                 deviations>>

\* line 49: ser.write(b'\x04')
Write ==
  /\ pc = "write"
  /\ pc' = "init"
  /\ written' = Append(written, TriggerByte)
  /\ events' = Append(events, "trigger")
  /\ UNCHANGED <<locals, axes, port_open, runs, opens, consumed, draws,
                 outcome, axes0, deviations>>

\* lines 51-54: times = []; volts = []; stop_condition = 0
InitLists ==
  /\ pc = "init"
  /\ pc' = "while"
  /\ times' = <<>>
  /\ volts' = <<>>
  /\ stop_condition' = 0
  /\ UNCHANGED <<ser, data, times_flt, volts_flt, theory_times, theory_volts, axes, port_open,
                 runs, history, deviations>>

\* a variant of While with the guard stop_condition < 1990
While_Strict ==
  /\ pc = "while"
  /\ IF stop_condition < LoopLimit
       THEN /\ pc' = "readline"
            /\ UNCHANGED events
       ELSE /\ pc' = "theory"
            /\ events' = Append(events, "loop")
  /\ UNCHANGED <<locals, axes, port_open, runs, opens, written, consumed,
                 draws, outcome, axes0, deviations>>

\* line 56: while stop_condition <= 1990
While ==
  /\ pc = "while"
  /\ IF stop_condition <= LoopLimit
       THEN /\ pc' = "readline"
            /\ UNCHANGED events
       ELSE /\ pc' = "theory"
            /\ events' = Append(events, "loop")
  /\ UNCHANGED <<locals, axes, port_open, runs, opens, written, consumed,
                 draws, outcome, axes0, deviations>>

\* line 59: data = ser.readline().decode('utf-8').strip(), readline having
\* returned the bytes raw; UnicodeDecodeError is a ValueError, so line 70
\* catches it
ReadLine(raw) ==
  /\ pc = "readline"
  /\ IF DecodeOK(raw)
       THEN /\ data' = Strip(Decode(raw))
            /\ pc' = "parse"
       ELSE /\ data' = data
            /\ pc' = "except"
  /\ UNCHANGED <<ser, times, volts, stop_condition, times_flt, volts_flt,
                 theory_times, theory_volts, axes, port_open, runs, opens, written, events,
                 draws, outcome, axes0>>

\* line 59: ser.readline() raises SerialException (the device was unplugged);
\* it is not a ValueError, so it leaves plot_example
ReadError ==
  /\ pc = "readline"
  /\ \E finalized \in BOOLEAN : LeaveFrame("raised", finalized)
  /\ UNCHANGED <<axes, runs, opens, written, consumed, events, draws,
                 axes0, deviations>>

\* line 62: times_str, volts_str = data.split(','): the unpacking raises
\* ValueError unless split returns exactly two fields
UnpackOK(line) ==
  Len(Split(line)) = 2

\* line 63: times_flt = float(times_str) is reached and returns
TimeOK(line) ==
  UnpackOK(line) /\ FloatOK(Split(line)[1])

\* line 64: volts_flt = float(volts_str) is reached and returns
VoltOK(line) ==
  TimeOK(line) /\ FloatOK(Split(line)[2])

\* the decoded, stripped lines the device can make readline() return
Texts ==
  {Strip(Decode(Bytes[n])) : n \in {x \in RawLines : DecodeOK(Bytes[x])}}

\* lines 62-64 applied to each text: whether float(times_str) returned (tok),
\* whether all three statements completed (ok), and the values assigned
ParseResult ==
  [line \in Texts |->
     [tok |-> TimeOK(line),
      ok  |-> VoltOK(line),
      t   |-> IF TimeOK(line) THEN Float(Split(line)[1]) ELSE NoFloat,
      v   |-> IF VoltOK(line) THEN Float(Split(line)[2]) ELSE NoFloat]]

\* a variant of Parse that appends the time as soon as it has been parsed
Parse_AppendsEarly ==
  /\ pc = "parse"
  /\ pc' = IF ParseResult[data].ok THEN "append" ELSE "except"
  /\ times_flt' = IF ParseResult[data].tok THEN ParseResult[data].t
                                            ELSE times_flt
  /\ times' = IF ParseResult[data].tok THEN Append(times, times_flt')
                                        ELSE times
  /\ volts_flt' = IF ParseResult[data].ok THEN ParseResult[data].v
                                           ELSE volts_flt
  /\ UNCHANGED <<ser, volts, stop_condition, data, theory_times,
                 theory_volts, axes, port_open, runs, history, deviations>>

\* lines 62-64: the unpacking and the two float() calls; a ValueError raised
\* by any of them is caught at line 70.  times_flt is assigned before
\* float(volts_str) is evaluated.
Parse ==
  /\ pc = "parse"
  /\ pc' = IF ParseResult[data].ok THEN "append" ELSE "except"
  /\ times_flt' = IF ParseResult[data].tok THEN ParseResult[data].t
                                            ELSE times_flt
  /\ volts_flt' = IF ParseResult[data].ok THEN ParseResult[data].v
                                           ELSE volts_flt
  /\ UNCHANGED <<ser, times, volts, stop_condition, data, theory_times, theory_volts, axes,
                 port_open, runs, history, deviations>>

\* a variant of AppendSample that counts an accepted sample as one
AppendSample_CountsOne ==
  /\ pc = "append"
  /\ pc' = "while"
  /\ times' = Append(times, times_flt)
  /\ volts' = Append(volts, volts_flt)
  /\ stop_condition' = stop_condition + 1
  /\ UNCHANGED <<ser, data, times_flt, volts_flt, theory_times,
                 theory_volts, axes, port_open, runs, history, deviations>>

\* a variant of AppendSample that inserts the sample at the front of the lists
AppendSample_Prepend ==
  /\ pc = "append"
  /\ pc' = "while"
  /\ times' = <<times_flt>> \o times
  /\ volts' = <<volts_flt>> \o volts
  /\ stop_condition' = stop_condition + CounterStep
  /\ UNCHANGED <<ser, data, times_flt, volts_flt, theory_times, theory_volts, axes, port_open,
                 runs, history, deviations>>

\* a variant of AppendSample that keeps only the latest sample
AppendSample_Overwrite ==
  /\ pc = "append"
  /\ pc' = "while"
  /\ times' = <<times_flt>>
  /\ volts' = <<volts_flt>>
  /\ stop_condition' = stop_condition + CounterStep
  /\ UNCHANGED <<ser, data, times_flt, volts_flt, theory_times, theory_volts, axes, port_open,
                 runs, history, deviations>>

\* lines 66-68: times.append(times_flt); volts.append(volts_flt);
\* stop_condition += 10
AppendSample ==
  /\ pc = "append"
  /\ pc' = "while"
  /\ times' = Append(times, times_flt)
  /\ volts' = Append(volts, volts_flt)
  /\ stop_condition' = stop_condition + CounterStep
  /\ UNCHANGED <<ser, data, times_flt, volts_flt, theory_times, theory_volts, axes, port_open,
                 runs, history, deviations>>

\* a variant of Except that advances the counter for the failed line
Except_Advances ==
  /\ pc = "except"
  /\ pc' = "while"
  /\ stop_condition' = stop_condition + CounterStep
  /\ UNCHANGED <<ser, times, volts, data, times_flt, volts_flt, theory_times, theory_volts,
                 axes, port_open, runs, history, deviations>>

\* a variant of Except that lets the ValueError leave plot_example
Except_Raises ==
  /\ pc = "except"
  /\ \E finalized \in BOOLEAN : LeaveFrame("raised", finalized)
  /\ UNCHANGED <<axes, runs, opens, written, consumed, events, draws,
                 axes0, deviations>>

\* a variant of Except whose handler sends the trigger byte again
Except_Retriggers ==
  /\ pc = "except"
  /\ pc' = "while"
  /\ written' = Append(written, TriggerByte)
  /\ UNCHANGED <<locals, axes, port_open, runs, opens, consumed, events,
                 draws, outcome, axes0, deviations>>

\* lines 70-71: except ValueError: print('Data collection in process')
Except ==
  /\ pc = "except"
  /\ pc' = "while"
  /\ UNCHANGED <<locals, axes, port_open, runs, history, deviations>>

\* line 82: the value computed for time t, kept as the term of the closed
\* form VMAX * (1 - math.exp(-t / (R * C * 1000))) it is an instance of
TheoryVolt(t) ==
  [vmax |-> "3.094", r |-> "90.4e3", c |-> "3.3e-6", t |-> t]

\* a variant of Theory that computes the curve over the observed samples
Theory_OverObserved ==
  /\ pc = "theory"
  /\ pc' = "plot"
  /\ theory_times' = [i \in 1..Len(times) |-> i - 1]
  /\ theory_volts' = [i \in 1..Len(times) |-> TheoryVolt(i - 1)]
  /\ events' = Append(events, "model")
  /\ UNCHANGED <<ser, times, volts, stop_condition, data, times_flt,
                 volts_flt, axes, port_open, runs, opens, written,
                 consumed, draws, outcome, axes0, deviations>>

\* lines 81-82: theory_times = list(range(2000)) and one theory value for
\* each of its elements
Theory ==
  /\ pc = "theory"
  /\ pc' = "plot"
  /\ theory_times' = [i \in 1..T_max |-> i - 1]
  /\ theory_volts' = [i \in 1..T_max |-> TheoryVolt(theory_times'[i])]
  /\ events' = Append(events, "model")
  /\ UNCHANGED <<ser, times, volts, stop_condition, data, times_flt,
                 volts_flt, axes, port_open, runs, opens, written,
                 consumed, draws, outcome, axes0, deviations>>

\* a variant of Plot in which plotting raises (mismatched x and y)
Plot_Raises ==
  /\ pc = "plot"
  /\ \E finalized \in BOOLEAN : LeaveFrame("raised", finalized)
  /\ UNCHANGED <<axes, runs, opens, written, consumed, events, draws,
                 axes0, deviations>>

\* a variant of Plot that also redraws the canvas
Plot_Draws ==
  /\ pc = "plot"
  /\ pc' = "draw"
  /\ axes' = [series |-> axes.series
                           \o << [style |-> "line", n |-> Len(theory_times),
                                  x |-> <<>>, y |-> <<>>],
                                 [style |-> "o", n |-> Len(times),
                                  x |-> times, y |-> volts] >>,
              xlabel |-> "Time (ms)",
              ylabel |-> "Voltage (V)",
              grid   |-> TRUE]
  /\ draws' = draws + 1
  /\ events' = Append(events, "render")
  /\ UNCHANGED <<locals, port_open, runs, opens, written, consumed, outcome,
                 axes0, deviations>>

\* lines 83-90: plot the theory line and the data points, label the axes,
\* switch the grid on
Plot ==
  /\ pc = "plot"
  /\ pc' = "draw"
  /\ axes' = [series |-> axes.series
                           \o << [style |-> "line", n |-> Len(theory_times),
                                  x |-> <<>>, y |-> <<>>],
                                 [style |-> "o", n |-> Len(times),
                                  x |-> times, y |-> volts] >>,
              xlabel |-> "Time (ms)",
              ylabel |-> "Voltage (V)",
              grid   |-> TRUE]
  /\ UNCHANGED <<locals, port_open, runs, history, deviations>>

\* line 92: plot_canvas.draw()
Draw ==
  /\ pc = "draw"
  /\ pc' = "return"
  /\ draws' = draws + 1
  /\ events' = Append(events, "render")
  /\ UNCHANGED <<locals, axes, port_open, runs, opens, written, consumed,
                 outcome, axes0, deviations>>

\* the end of plot_example: it returns None to the Tk main loop
Return ==
  /\ pc = "return"
  /\ \E finalized \in BOOLEAN : LeaveFrame("returned", finalized)
  /\ UNCHANGED <<axes, runs, opens, written, consumed, events, draws,
                 axes0, deviations>>

(***************************************************************************)
(* Specifications.                                                         *)
(***************************************************************************)
\* the steps of plot_example other than the read, which the Tk thread runs to
\* completion
PlotExampleStep ==
  \/ Serial_ok
  \/ Serial_fail
  \/ Write
  \/ InitLists
  \/ While
  \/ Parse
  \/ AppendSample
  \/ Except
  \/ Theory
  \/ Plot
  \/ Draw
  \/ Return

\* readline() returns the regular record or, within the bounds on the
\* device, any other line; every line read is recorded in consumed
ReadTracked ==
  \E name \in RawLines :
    /\ \/ name = "regular"
       \/ Len(consumed) < MaxFree /\ deviations < MaxFree
    /\ ReadLine(Bytes[name])
    /\ consumed' = Append(consumed, name)
    /\ deviations' = IF name = "regular" THEN deviations ELSE deviations + 1

Next ==
  \/ RunTest
  \/ Clear
  \/ Quit
  \/ Serial_ok
  \/ Serial_fail
  \/ Write
  \/ InitLists
  \/ While
  \/ ReadTracked
  \/ ReadError
  \/ Parse
  \/ AppendSample
  \/ Except
  \/ Theory
  \/ Plot
  \/ Draw
  \/ Return

Spec ==
  Init /\ [][Next]_vars

\* readline() returns the regular record
ReadRegular ==
  /\ ReadLine(Bytes["regular"])
  /\ UNCHANGED <<consumed, deviations>>

\* readline() returns a line that does not parse: the device is silent (the
\* read times out) or sends malformed lines, for as long as it likes
ReadMalformed ==
  /\ \E name \in RawLines \ {"regular", "other"} : ReadLine(Bytes[name])
  /\ UNCHANGED <<consumed, deviations>>

\* Every line read returns, with any line at any time; the lines read are not
\* recorded.
LiveNext ==
  \/ RunTest
  \/ Clear
  \/ Quit
  \/ Serial_ok
  \/ Serial_fail
  \/ Write
  \/ InitLists
  \/ While
  \/ ReadRegular
  \/ ReadMalformed
  \/ Parse
  \/ AppendSample
  \/ Except
  \/ Theory
  \/ Plot
  \/ Draw
  \/ Return

\* The Tk thread keeps running the callback it has started.
LiveSpec ==
  /\ Init
  /\ [][LiveNext]_vars
  /\ WF_vars(PlotExampleStep \/ ReadRegular \/ ReadMalformed)

(***************************************************************************)
(* Vocabulary of the properties, stated on the device's lines by name and  *)
(* independently of the parsing code.                                      *)
(***************************************************************************)
\* max_count of the specification: the loop runs while the counter is at most
\* max_count - 10
MaxCount ==
  LoopLimit + CounterStep

\* max_count / 10
SamplesPerRun ==
  MaxCount \div CounterStep

\* the lines with exactly two comma-separated numeric fields, and the sample
\* each of them denotes
SampleOf ==
  ("regular" :> [t |-> [m |-> 12, e |-> 0], v |-> [m |-> 15, e |-> 1]])
  @@ ("other" :> [t |-> [m |-> 45, e |-> 0], v |-> [m |-> 21, e |-> 1]])

WellFormed(name) ==
  name \in DOMAIN SampleOf

\* the subsequence of the well-formed lines of a stream
WellFormedOnly(stream) ==
  SelectSeq(stream, WellFormed)

\* number of lines of a stream that fail to parse
ParseFailures(stream) ==
  Len(stream) - Len(WellFormedOnly(stream))

\* the read loop has been left by its guard and plot_example has not ended
LoopExited ==
  pc \in {"theory", "plot", "draw", "return"}

IsPrefix(a, b) ==
  /\ Len(a) <= Len(b)
  /\ a = SubSeq(b, 1, Len(a))

RunStarted ==
  pc = "write"

RunRendered ==
  pc = "idle" /\ outcome = "returned"

InRun ==
  pc \notin {"idle", "closed"}

C4_HandleClosedAtExit ==
  pc = "idle" => port_open = 0

(***************************************************************************)
(* C5                                                                      *)
(***************************************************************************)
\* serial.Serial was called and has not returned a handle
OpenFailed ==
  opens > 0 /\ events = <<>>

\* C5: when opening the port fails, the failure reaches the caller after a
\* single attempt and the run has not started: nothing written, nothing read,
\* no sample.
C5_OpenFailureAbortsRun ==
  OpenFailed =>
    /\ pc = "idle"
    /\ outcome = "raised"
    /\ opens = 1
    /\ written = <<>>
    /\ consumed = <<>>
    /\ times = <<>>
    /\ volts = <<>>

\* the port failed to open in a run after one that plotted
C5_Witness ==
  /\ OpenFailed
  /\ outcome = "raised"
  /\ runs = 2
  /\ axes.series # <<>>

(***************************************************************************)
(* C6                                                                      *)
(***************************************************************************)
\* C6: when opening the port fails, the axes are as they were when the button
\* was pressed and no redraw was requested.
C6_OpenFailureLeavesPlot ==
  OpenFailed => (axes = axes0 /\ draws = 0)

\* the port failed to open while the axes showed an earlier run
C6_Witness ==
  /\ OpenFailed
  /\ pc = "idle"
  /\ Len(axes.series) = 2
  /\ axes.xlabel = "Time (ms)"

(***************************************************************************)
(* C7                                                                      *)
(***************************************************************************)
\* the lines read whose handling by the loop body is complete
Settled ==
  IF pc \in {"parse", "append"}
    THEN SubSeq(consumed, 1, Len(consumed) - 1)
    ELSE consumed

\* C7: throughout a run, times and volts are exactly the samples of the
\* well-formed lines among the lines handled so far, in arrival order; a
\* malformed line contributes nothing to either list.
C7_SeriesIsWellFormedSubsequence ==
  InRun =>
    LET expected == WellFormedOnly(Settled)
    IN  /\ Len(times) = Len(expected)
        /\ Len(volts) = Len(expected)
        /\ \A i \in 1..Len(expected) :
             /\ times[i] = SampleOf[expected[i]].t
             /\ volts[i] = SampleOf[expected[i]].v

\* the loop is left after a run that began with the other well-formed record
C7_Witness ==
  /\ LoopExited
  /\ consumed[1] = "other"
  /\ times[1] # times[2]

(***************************************************************************)
(* C8                                                                      *)
(***************************************************************************)
\* the last line read is malformed
LastLineMalformed ==
  consumed # <<>> /\ ~WellFormed(consumed[Len(consumed)])

\* C8: a line that fails to parse never ends the run: from the read of a
\* malformed line the callback goes through the handler back to the loop
\* guard, the guard holds and the next line is read; no error leaves
\* plot_example on the way.
C8_ParseFailureAbsorbed ==
  [][ /\ (pc = "readline" /\ Len(consumed') > Len(consumed)
            /\ ~WellFormed(consumed'[Len(consumed')]))
           => (pc' \in {"parse", "except"} /\ outcome' = "none")
      /\ (pc = "parse" /\ LastLineMalformed)
           => (pc' = "except" /\ outcome' = "none")
      /\ (pc = "except")
           => (pc' = "while" /\ outcome' = "none"
                 /\ stop_condition' <= LoopLimit)
      /\ (pc = "while" /\ LastLineMalformed)
           => (pc' = "readline" /\ outcome' = "none")
    ]_vars

\* the loop is about to read again after a line that failed to parse
C8_Witness ==
  /\ pc = "readline"
  /\ LastLineMalformed

(***************************************************************************)
(* C9                                                                      *)
(***************************************************************************)
\* C9: during a run the observed series only grows by appending, and it never
\* holds more than max_count samples.
C9_AppendOnlyBounded ==
  /\ [](Len(times) <= MaxCount /\ Len(volts) <= MaxCount)
  /\ [][(InRun /\ pc' # "idle")
          => (IsPrefix(times, times') /\ IsPrefix(volts, volts'))]_vars

\* the series has grown to its final length
C9_Witness ==
  /\ pc = "while"
  /\ Len(times) = SamplesPerRun
  /\ Len(volts) = SamplesPerRun

(***************************************************************************)
(* C10                                                                     *)
(***************************************************************************)
RunSteps ==
  <<"open", "trigger", "loop", "model", "render">>

\* C10: the steps of a run happen in the order open, trigger, read loop,
\* model, render, each at most once, and a run that returns has done each of
\* them exactly once, with one redraw.
C10_StepsInOrderOnce ==
  /\ IsPrefix(events, RunSteps)
  /\ outcome = "returned" => (events = RunSteps /\ draws = 1)
  /\ (InRun /\ draws > 0) => events = RunSteps

\* a run has returned after a line failed to parse
C10_Witness ==
  /\ outcome = "returned"
  /\ events = RunSteps
  /\ ParseFailures(consumed) = 1

(***************************************************************************)
(* C11                                                                     *)
(***************************************************************************)
\* C11: while a run is in flight no button is processed: no second run is
\* started, the axes are not cleared and the window is not closed; the run
\* ends only by plot_example returning or raising.
C11_OneRunInFlight ==
  [][InRun =>
       /\ runs' = runs
       /\ outcome' # "cleared"
       /\ pc' # "closed"
       /\ (pc' = "idle" => outcome' \in {"returned", "raised"})
       /\ (pc' # "idle" => outcome' = "none")
    ]_vars

\* the second run is reading while the axes show the first
C11_Witness ==
  /\ pc = "readline"
  /\ runs = 2
  /\ axes.series # <<>>
  /\ Len(times) > 0

(***************************************************************************)
(* C12                                                                     *)
(***************************************************************************)
\* plot_example is past line 82
TheoryComputed ==
  pc \in {"plot", "draw", "return"}

\* C12: once a run has computed the theory curve, theory_times is 0..1999
\* and theory_volts has one value for each of these 2000 times, whatever
\* lines the device sent; a run that has returned has plotted that curve.
C12_TheoryHas2000Points ==
  /\ TheoryComputed =>
       /\ Len(theory_times) = 2000
       /\ Len(theory_volts) = 2000
       /\ \A i \in 1..2000 : /\ theory_times[i] = i - 1
                             /\ theory_volts[i].t = i - 1
  /\ pc \in {"draw", "return"} \/ outcome = "returned" =>
       /\ Len(axes.series) >= 2
       /\ axes.series[Len(axes.series) - 1].style = "line"
       /\ axes.series[Len(axes.series) - 1].n = 2000
  /\ outcome = "returned" => events[Len(events) - 1] = "model"

\* the curve has been computed in a run in which a line was rejected
C12_Witness ==
  /\ pc = "plot"
  /\ ParseFailures(consumed) = 1
  /\ Len(theory_volts) = 2000

(***************************************************************************)
(* C13                                                                     *)
(***************************************************************************)
\* C13: a run starts with no handle of an earlier run still open, and it
\* enters its read loop with empty lists, a counter of 0 and exactly one
\* open handle, the one it has just opened.
C13_RunScoped ==
  /\ pc = "open" =>
       /\ port_open = 0
       /\ ser = "none"
       /\ times = <<>> /\ volts = <<>>
       /\ stop_condition = 0
  /\ pc = "while" /\ consumed = <<>> =>
       /\ times = <<>> /\ volts = <<>>
       /\ stop_condition = 0
       /\ ser = "open"
       /\ port_open = 1

(***************************************************************************)
(* C14                                                                     *)
(***************************************************************************)
\* plot_example is past the write of line 49
PastWrite ==
  pc \in {"init", "while", "readline", "parse", "append", "except",
          "theory", "plot", "draw", "return"}

\* C14: the bytes written in a run are nothing before the port is open and
\* the single byte 0x04 from line 49 on: it is written after the open,
\* before any line is read, and nothing is written after it, neither in the
\* loop nor in the handler of a parse failure, nor until the run has ended.
C14_OneTriggerByte ==
  /\ written \in {<<>>, <<4>>}
  /\ written # <<>> =>
       /\ Len(events) >= 2
       /\ events[1] = "open"
       /\ events[2] = "trigger"
  /\ pc \in {"open", "write"} => written = <<>> /\ consumed = <<>>
  /\ PastWrite => written = <<4>>
  /\ consumed # <<>> => written = <<4>>
  /\ outcome \in {"returned", "raised"} /\ events # <<>> => written = <<4>>

\* a parse failure has been handled and the loop guard is next
C14_Witness ==
  /\ pc = "while"
  /\ LastLineMalformed
  /\ written = <<4>>
  /\ events = <<"open", "trigger">>

(***************************************************************************)
(* C16                                                                     *)
(***************************************************************************)
\* the last line read is "30,": float(times_str) returned, float(volts_str)
\* raised
LastLineHalfParsed ==
  consumed # <<>> /\ consumed[Len(consumed)] = "badvolt"

\* C16: times and volts have the same length wherever the run stands, and a
\* line whose time parsed but whose voltage did not leaves both lists as
\* they were, from its read through the handler back to the loop guard,
\* although times_flt holds its time.
C16_ListsInStep ==
  /\ [](Len(times) = Len(volts))
  /\ [](LastLineHalfParsed /\ pc \in {"except", "while"} =>
          /\ times_flt = [m |-> 30, e |-> 0]
          /\ Len(times) = Len(WellFormedOnly(consumed))
          /\ (times # <<>> => times[Len(times)] # times_flt))
  /\ [][(pc \in {"readline", "parse", "except"} /\ pc' \notin {"idle", "append"})
          => (times' = times /\ volts' = volts)]_vars

\* the handler has run for the line "30,"
C16_Witness ==
  /\ pc = "while"
  /\ LastLineHalfParsed
  /\ times_flt # NoFloat

(***************************************************************************)
(* C17                                                                     *)
(***************************************************************************)
\* C17: whenever the loop guard is evaluated the counter is 10 times the
\* number of samples in the lists, and it never passes 2000; once the loop
\* has been left the counter is 2000 and each list holds 200 samples.
C17_CounterIsTenPerSample ==
  /\ pc = "while" =>
       /\ stop_condition = 10 * Len(times)
       /\ stop_condition = 10 * Len(volts)
       /\ stop_condition <= 2000
  /\ LoopExited =>
       /\ stop_condition = 2000
       /\ Len(times) = 200
       /\ Len(volts) = 200

\* the guard has just failed in a run that rejected a line
C17_Witness ==
  /\ pc = "theory"
  /\ stop_condition = 2000
  /\ Len(consumed) = 201

====
